---- MODULE Spec2Model ----
(***************************************************************************)
(* The Exemplars trait of src/lib.rs: the required operation exemplars(),  *)
(* the provided operation exemplar(), and the built-in implementations for *)
(* (), the integer types, Option<T>, String and Vec<T>.                    *)
(*                                                                         *)
(* A type is a sequence of constructor names ending in a leaf type:        *)
(* <<"Option", "Vec", "u8">> is Option<Vec<u8>>.  An iterator is a record  *)
(* holding the state the Rust iterator holds (array::IntoIter,             *)
(* RangeInclusive, Map, Chain); next() is IterNext.  A caller consumes an  *)
(* iterator one next() at a time.                                          *)
(*                                                                         *)
(* The feature "alloc" is taken as enabled (String, Vec<T>).  The impls    *)
(* behind the features bigdecimal_03, bigdecimal_04, rust_decimal and uuid *)
(* are one-element arrays of values of other crates and are left out.      *)
(***************************************************************************)
EXTENDS Integers, Sequences, FiniteSets, TLC

VARIABLES pc, ty, it, out, ret, pulls, work, ref, calls

vars == <<pc, ty, it, out, ret, pulls, work, ref, calls>>

\* Nesting depth of Option/Vec wrappers explored by Spec and FairSpec.
MaxDepth == 3
\* Nesting depth of Option/Vec wrappers explored by SpecRepeat.
RepeatDepth == 2
\* Number of successive calls explored by SpecRepeat.
MaxCalls == 3

(***************************************************************************)
(* Values                                                                  *)
(***************************************************************************)
Unit == <<"Unit">>
Num(n) == <<"Int", n>>
Str(s) == <<"Str", s>>
None == <<"None">>
Some(x) == <<"Some", x>>

vecTwice(x) == <<"Vec", <<x, x>>>>
\* alloc::vec![x]
vec(x) == <<"Vec", <<x>>>>

(***************************************************************************)
(* Types                                                                   *)
(***************************************************************************)
Wrappers == {"Option", "Vec"}
\* The integer types whose exemplars a caller can enumerate to the end
\* within the integer range of the model checker.
NumberTypes == {"u8", "i8", "u16", "i16"}
\* "Empty" is an implementor that breaks the contract of exemplars().
Leaves == {"unit", "u8", "i8", "String", "Empty"}

\* The leaf types of the callers that make repeated calls.
RepeatLeaves == {"unit", "u8", "String", "Empty"}

TypesOfDepth(leaves, k) == { [i \in 1..(k + 1) |-> IF i <= k THEN w[i] ELSE l] :
                               w \in [1..k -> Wrappers], l \in leaves }
TypesUpTo(d) == UNION { TypesOfDepth(Leaves, k) : k \in 0..d }
RepeatTypes == UNION { TypesOfDepth(RepeatLeaves, k) : k \in 0..RepeatDepth }

Leaf(t) == t[Len(t)]
\* An implementation that keeps the contract "must return at least one value".
Lawful(t) == Leaf(t) # "Empty"

IsSigned(l) == l \in {"i8", "i16"}
Bits(l) == IF l \in {"u8", "i8"} THEN 8 ELSE 16
\* Self::MAX
MAX(l) == IF IsSigned(l) THEN 2^(Bits(l) - 1) - 1 ELSE 2^Bits(l) - 1
\* Arithmetic of the integer type l: the representable value congruent to n.
Wrap(l, n) == IF IsSigned(l)
              THEN ((n + 2^(Bits(l) - 1)) % 2^Bits(l)) - 2^(Bits(l) - 1)
              ELSE n % 2^Bits(l)

(***************************************************************************)
(* Iterators                                                               *)
(***************************************************************************)
NoIter == [kind |-> "none"]
\* [a, b, ...].into_iter()
ArrayIter(items) == [kind |-> "array", items |-> items, idx |-> 1]
\* lo..=hi over the integer type l
RangeInclusive(l, lo, hi) ==
    [kind |-> "range", int |-> l, start |-> lo, end |-> hi, exhausted |-> FALSE]
\* inner.map(f)
Map(inner, f) == [kind |-> "map", f |-> f, inner |-> inner]
\* a.chain(b)
Chain(a, b) == [kind |-> "chain", a |-> <<a>>, b |-> b]

Apply(f, x) == IF f = "Some" THEN Some(x) ELSE vec(x)

ArrayNext(i) ==
    IF i.idx > Len(i.items)
    THEN [item |-> <<>>, it |-> i, work |-> 1]
    ELSE [item |-> <<i.items[i.idx]>>, it |-> [i EXCEPT !.idx = @ + 1], work |-> 1]

\* RangeInclusive::next: the last value sets the exhausted flag instead of
\* stepping past the end.
RangeNext(i) ==
    IF i.exhausted \/ ~(i.start <= i.end)
    THEN [item |-> <<>>, it |-> i, work |-> 1]
    ELSE IF i.start < i.end
         THEN [item |-> <<Num(i.start)>>,
               it |-> [i EXCEPT !.start = Wrap(i.int, @ + 1)], work |-> 1]
         ELSE [item |-> <<Num(i.start)>>,
               it |-> [i EXCEPT !.exhausted = TRUE], work |-> 1]

\* The element of a one-element set.
Only(S) == CHOOSE x \in S : TRUE

\* Map::next, given the answer n of the inner iterator's next()
MapNext(i, n) ==
    [item |-> IF n.item = <<>> THEN <<>> ELSE <<Apply(i.f, n.item[1])>>,
     it |-> [i EXCEPT !.inner = n.it], work |-> n.work]

\* Chain::next once the first iterator has answered None (after work w):
\* the first iterator is dropped and the answer nb of the second is given.
ChainSecond(i, nb, w) ==
    [item |-> nb.item, it |-> [i EXCEPT !.a = <<>>, !.b = nb.it],
     work |-> w + nb.work]

RECURSIVE IterNext(_)
\* Iterator::next.  item is <<>> for None and <<x>> for Some(x); work counts
\* the next() calls that reached an array or a range.
IterNext(i) ==
    CASE i.kind = "array" -> ArrayNext(i)
      [] i.kind = "range" -> RangeNext(i)
      [] i.kind = "map" -> Only({ MapNext(i, n) : n \in {IterNext(i.inner)} })
      [] i.kind = "chain" ->
            IF i.a = <<>>
            THEN Only({ ChainSecond(i, nb, 0) : nb \in {IterNext(i.b)} })
            ELSE Only({ IF na.item # <<>>
                        THEN [item |-> na.item, it |-> [i EXCEPT !.a = <<na.it>>],
                              work |-> na.work]
                        ELSE Only({ ChainSecond(i, nb, na.work) :
                                      nb \in {IterNext(i.b)} }) :
                        na \in {IterNext(i.a[1])} })

RECURSIVE take(_, _)
\* At most k calls of next(), stopping at the first None: the values, the
\* iterator left, whether None was seen, the next() calls and their work.
\* The calls are made in order; the halving only bounds the nesting of
\* the evaluation.
take(i, k) ==
    IF k = 1
    THEN LET n == IterNext(i) IN
         [items |-> n.item, it |-> n.it, ended |-> n.item = <<>>,
          pulls |-> 1, work |-> n.work]
    ELSE LET a == take(i, k \div 2) IN
         IF a.ended
         THEN a
         ELSE LET b == take(a.it, k - (k \div 2)) IN
              [items |-> a.items \o b.items, it |-> b.it, ended |-> b.ended,
               pulls |-> a.pulls + b.pulls, work |-> a.work + b.work]

RECURSIVE loop(_, _)
loop(i, k) ==
    LET a == take(i, k) IN
    IF a.ended
    THEN a
    ELSE LET b == loop(a.it, 2 * k) IN
         [items |-> a.items \o b.items, it |-> b.it, ended |-> b.ended,
          pulls |-> a.pulls + b.pulls, work |-> a.work + b.work]

\* A loop of next() until the first None: the values, the number of next()
\* calls made and the work they did.
drain(i) == loop(i, 1)
\* into_iter().collect()
collect(i) == drain(i).items

(***************************************************************************)
(* The implementations of exemplars()                                      *)
(***************************************************************************)
unitExemplarsNothing == ArrayIter(<<>>)
\* impl Exemplars for ()
unitExemplars == ArrayIter(<<Unit>>)

numberExemplarsHalfOpen(l) == RangeInclusive(l, 1, MAX(l) - 1)
numberExemplarsCounting(l) == RangeInclusive(l, 1 + calls, MAX(l))
\* impl_for_number_types!: 1..=Self::MAX
numberExemplars(l) == RangeInclusive(l, 1, MAX(l))

stringExemplarsTwo == ArrayIter(<<Str("example"), Str("example")>>)
\* impl Exemplars for String
stringExemplars == ArrayIter(<<Str("example")>>)

\* An implementor outside the crate whose exemplars() yields nothing.
emptyExemplars == ArrayIter(<<>>)

optionExemplarsNoneFirst(inner) == Chain(ArrayIter(<<None>>), Map(inner, "Some"))
optionExemplarsTwoNone(inner) == Chain(Map(inner, "Some"), ArrayIter(<<None, None>>))
\* impl Exemplars for Option<T>
optionExemplars(inner) == Chain(Map(inner, "Some"), ArrayIter(<<None>>))

\* impl Exemplars for Vec<T>
vecExemplars(inner) == Map(inner, "vec")

RECURSIVE exemplars(_)
\* T::exemplars().into_iter() for the type t
exemplars(t) ==
    IF Len(t) = 1
    THEN CASE t[1] = "unit" -> unitExemplars
           [] t[1] = "String" -> stringExemplars
           [] t[1] = "Empty" -> emptyExemplars
           [] OTHER -> numberExemplars(t[1])
    ELSE IF t[1] = "Option"
         THEN optionExemplars(exemplars(Tail(t)))
         ELSE vecExemplars(exemplars(Tail(t)))

(***************************************************************************)
(* The provided method exemplar()                                          *)
(***************************************************************************)
exemplarOverridden(t) ==
    LET n == IterNext(exemplars(t)) IN
    IF t[1] = "Option"
    THEN [panicked |-> FALSE, value |-> <<None>>, pulls |-> 0, work |-> 0]
    ELSE [panicked |-> n.item = <<>>, value |-> n.item, pulls |-> 1, work |-> n.work]
exemplarOrDefault(t) ==
    LET n == IterNext(exemplars(t)) IN
    [panicked |-> FALSE, value |-> IF n.item = <<>> THEN <<Unit>> ELSE n.item,
     pulls |-> 1, work |-> n.work]
exemplarCollected(t) ==
    LET all == drain(exemplars(t)) IN
    [panicked |-> all.items = <<>>, value |-> SubSeq(all.items, 1, 1),
     pulls |-> all.pulls, work |-> all.work]
\* Self::exemplars().into_iter().next().expect(..)
exemplar(t) ==
    LET n == IterNext(exemplars(t)) IN
    [panicked |-> n.item = <<>>, value |-> n.item, pulls |-> 1, work |-> n.work]

(***************************************************************************)
(* Callers                                                                 *)
(***************************************************************************)
NoRef == [kind |-> "none"]

Init ==
    /\ pc = "idle"
    /\ ty = <<>>
    /\ it = NoIter
    /\ out = <<>>
    /\ ret = <<>>
    /\ pulls = 0
    /\ work = 0
    /\ ref = NoRef
    /\ calls = 0

\* let mut i = T::exemplars().into_iter();
CallExemplars(t) ==
    /\ pc = "idle"
    /\ pc' = "iterating"
    /\ ty' = t
    /\ it' = exemplars(t)
    /\ out' = <<>>
    /\ ret' = <<>>
    /\ pulls' = 0
    /\ work' = 0
    /\ UNCHANGED <<ref, calls>>

\* One i.next() of a caller that pushes every value it gets.
Pull ==
    /\ pc = "iterating"
    /\ \E n \in {IterNext(it)} :
       /\ it' = n.it
       /\ pulls' = pulls + 1
       /\ work' = work + n.work
       /\ out' = out \o n.item
       /\ pc' = IF n.item = <<>> THEN "done" ELSE "iterating"
    /\ UNCHANGED <<ty, ret, ref, calls>>

\* T::exemplar()
CallExemplar(t) ==
    /\ pc = "idle"
    /\ \E r \in {exemplar(t)} :
       /\ pc' = IF r.panicked THEN "panicked" ELSE "returned"
       /\ ret' = r.value
       /\ pulls' = r.pulls
       /\ work' = r.work
    /\ ty' = t
    /\ it' = NoIter
    /\ out' = <<>>
    /\ UNCHANGED <<ref, calls>>

\* The caller drops what the call gave it.
Finish ==
    /\ pc \in {"done", "returned", "panicked"}
    /\ pc' = "idle"
    /\ ty' = <<>>
    /\ it' = NoIter
    /\ out' = <<>>
    /\ ret' = <<>>
    /\ pulls' = 0
    /\ work' = 0
    /\ UNCHANGED <<ref, calls>>

Next ==
    \/ \E t \in TypesUpTo(MaxDepth) : CallExemplars(t)
    \/ Pull
    \/ \E t \in TypesUpTo(MaxDepth) : CallExemplar(t)
    \/ Finish

Spec == Init /\ [][Next]_vars

\* A caller's loop over the iterator runs until next() returns None.
FairSpec == Spec /\ WF_vars(Pull)

(***************************************************************************)
(* Repeated calls: a caller keeps the result of one finished call and      *)
(* goes on calling.                                                        *)
(***************************************************************************)
\* T::exemplars().into_iter().collect()
RepeatExemplars(t) ==
    /\ pc = "idle"
    /\ calls < MaxCalls
    /\ calls' = calls + 1
    /\ \E r \in {drain(exemplars(t))} :
       /\ out' = r.items
       /\ pulls' = r.pulls
       /\ work' = r.work
    /\ pc' = "done"
    /\ ty' = t
    /\ it' = NoIter
    /\ ret' = <<>>
    /\ UNCHANGED ref

\* T::exemplar()
RepeatExemplar(t) ==
    /\ pc = "idle"
    /\ calls < MaxCalls
    /\ calls' = calls + 1
    /\ \E r \in {exemplar(t)} :
       /\ pc' = IF r.panicked THEN "panicked" ELSE "returned"
       /\ ret' = r.value
       /\ pulls' = r.pulls
       /\ work' = r.work
    /\ ty' = t
    /\ it' = NoIter
    /\ out' = <<>>
    /\ UNCHANGED ref

\* The caller keeps the result of the call that has just finished.
Remember ==
    /\ pc \in {"done", "returned", "panicked"}
    /\ ref = NoRef
    /\ ref' = [kind |-> "call", ty |-> ty, pc |-> pc, out |-> out, ret |-> ret]
    /\ pc' = "idle"
    /\ ty' = <<>>
    /\ it' = NoIter
    /\ out' = <<>>
    /\ ret' = <<>>
    /\ pulls' = 0
    /\ work' = 0
    /\ UNCHANGED calls

NextRepeat ==
    \/ \E t \in RepeatTypes : RepeatExemplars(t)
    \/ \E t \in RepeatTypes : RepeatExemplar(t)
    \/ Remember
    \/ Finish

SpecRepeat == Init /\ [][NextRepeat]_vars

(***************************************************************************)
(* Integer types enumerated to the end by a caller that keeps only the     *)
(* latest value.                                                           *)
(***************************************************************************)
\* let mut i = <l>::exemplars().into_iter();
NumberCall(l) ==
    /\ pc = "idle"
    /\ pc' = "iterating"
    /\ ty' = <<l>>
    /\ it' = exemplars(<<l>>)
    /\ out' = <<>>
    /\ ret' = <<>>
    /\ pulls' = 0
    /\ work' = 0
    /\ UNCHANGED <<ref, calls>>

\* One i.next() of a caller that keeps the latest value only.
NumberPull ==
    /\ pc = "iterating"
    /\ \E n \in {IterNext(it)} :
       /\ it' = n.it
       /\ pulls' = pulls + 1
       /\ work' = work + n.work
       /\ out' = IF n.item = <<>> THEN out ELSE n.item
       /\ pc' = IF n.item = <<>> THEN "done" ELSE "iterating"
    /\ UNCHANGED <<ty, ret, ref, calls>>

NextNumber ==
    \/ \E l \in NumberTypes : NumberCall(l)
    \/ NumberPull
    \/ Finish

SpecNumber == Init /\ [][NextNumber]_vars

(***************************************************************************)
(* Properties                                                              *)
(***************************************************************************)
Finished == pc \in {"done", "returned", "panicked"}
Answered == pc \in {"returned", "panicked"}
IsOption(t) == Len(t) > 1 /\ t[1] = "Option"
IsVec(t) == Len(t) > 1 /\ t[1] = "Vec"

\* C1: whenever exemplar() returns a value for a type, that value is the
\* first value a full enumeration of exemplars() of the same type yields,
\* whichever of the two calls was made first; no type answers exemplar()
\* in a way of its own.
C1_PrimaryIsFirst ==
    (ref.kind = "call" /\ Finished /\ ty = ref.ty) =>
        /\ (ref.pc = "done" /\ pc = "returned") =>
               (ref.out # <<>> /\ ret = <<ref.out[1]>>)
        /\ (ref.pc = "returned" /\ pc = "done") =>
               (out # <<>> /\ ref.ret = <<out[1]>>)

C1_Witness ==
    /\ ref.kind = "call"
    /\ ref.pc = "done"
    /\ pc = "returned"
    /\ ty = ref.ty
    /\ ty = <<"Option", "Vec", "u8">>
    /\ ret = <<ref.out[1]>>
    /\ calls = 3

\* C2: the exemplars of every type built from (), the integer types and
\* String by any nesting of Option and Vec are not empty: the first next()
\* yields a value, and a full enumeration has at least one.
C2_NonEmpty ==
    (pc \in {"iterating", "done"} /\ pulls >= 1) =>
        (Lawful(ty) => Len(out) >= 1)

C2_Witness ==
    /\ pc = "done"
    /\ ty = <<"Option", "Vec", "Option", "u8">>
    /\ Len(out) >= 1

\* C3: exemplar() panics, giving no value, exactly when exemplars() of the
\* type yields nothing; when exemplars() yields something exemplar()
\* returns a value and does not panic.
C3_PanicIffEmpty ==
    Answered =>
        \E all \in {collect(exemplars(ty))} :
            /\ (all = <<>>) => (pc = "panicked" /\ ret = <<>>)
            /\ (all # <<>>) => (pc = "returned" /\ Len(ret) = 1)

C3_Witness ==
    /\ pc = "panicked"
    /\ ty = <<"Vec", "Vec", "Empty">>
    /\ ret = <<>>

\* C4: the exemplars of Option<T> are Some(e) for every exemplar e of T, in
\* T's order, followed by one None, which occurs nowhere else at the outer
\* level; when T has an exemplar, exemplar() of Option<T> is
\* Some(T::exemplar()) and not None.
C4_OptionExemplars ==
    /\ (pc = "done" /\ IsOption(ty)) =>
           \E inner \in {collect(exemplars(Tail(ty)))} :
               /\ Len(out) = Len(inner) + 1
               /\ \A i \in 1..Len(inner) : out[i] = <<"Some", inner[i]>>
               /\ out[Len(out)] = <<"None">>
               /\ Cardinality({i \in 1..Len(out) : out[i] = <<"None">>}) = 1
    /\ (Answered /\ IsOption(ty) /\ Lawful(ty)) =>
           \E e \in {exemplar(Tail(ty))} :
               /\ ~e.panicked
               /\ pc = "returned"
               /\ ret = <<<<"Some", e.value[1]>>>>
               /\ ret # <<<<"None">>>>

C4_Witness ==
    /\ pc = "done"
    /\ ty = <<"Option", "u8">>
    /\ Len(out) = 256
    /\ out[1] = <<"Some", <<"Int", 1>>>>
    /\ out[255] = <<"Some", <<"Int", 255>>>>
    /\ out[256] = <<"None">>

\* C5: the n-th exemplar of an integer type is n: the first is 1, the
\* values ascend by one without repeating, none is 0 or negative, the last
\* is MAX, and the next() after MAX yields None.
C5_NumberRange ==
    (pc \in {"iterating", "done"} /\ pulls >= 1) =>
        /\ (pc = "iterating") => (out = <<<<"Int", pulls>>>> /\ pulls <= MAX(ty[1]))
        /\ (pc = "done") => (out = <<<<"Int", MAX(ty[1])>>>> /\ pulls = MAX(ty[1]) + 1)

C5_Witness ==
    /\ pc = "done"
    /\ ty = <<"u16">>
    /\ out = <<<<"Int", 65535>>>>
    /\ pulls = 65536

\* C6: the exemplars of Vec<T> are, for every exemplar e of T in T's order,
\* the Vec holding e alone: as many as T has, each of length 1; when T has
\* an exemplar, exemplar() of Vec<T> is the Vec holding T::exemplar() alone.
C6_VecExemplars ==
    /\ (pc = "done" /\ IsVec(ty)) =>
           \E inner \in {collect(exemplars(Tail(ty)))} :
               /\ Len(out) = Len(inner)
               /\ \A i \in 1..Len(out) :
                      /\ out[i] = <<"Vec", <<inner[i]>>>>
                      /\ Len(out[i][2]) = 1
    /\ (Answered /\ IsVec(ty) /\ Lawful(ty)) =>
           \E e \in {exemplar(Tail(ty))} :
               /\ ~e.panicked
               /\ pc = "returned"
               /\ ret = <<<<"Vec", <<e.value[1]>>>>>>

C6_Witness ==
    /\ pc = "done"
    /\ ty = <<"Vec", "Option", "u8">>
    /\ Len(out) = 256
    /\ out[1] = <<"Vec", <<<<"Some", <<"Int", 1>>>>>>>>
    /\ out[256] = <<"Vec", <<<<"None">>>>>>

C8_StringExemplars ==
    (Finished /\ ty = <<"String">>) =>
        /\ (pc = "done") => (out = <<<<"Str", "example">>>>)
        /\ (pc # "done") => (pc = "returned" /\ ret = <<<<"Str", "example">>>>)

C8_Witness ==
    /\ pc = "done"
    /\ ty = <<"String">>
    /\ Len(out) = 1
    /\ out[1] = <<"Str", "example">>

\* C9 as stated: every value among the exemplars of Option<T> or Vec<T>,
\* for T built from the crate's own implementations, is the wrapping
\* (Some(e), or the Vec holding e alone) of an exemplar e of T.
C9_AddsNoValue ==
    (pc = "done" /\ Len(ty) > 1 /\ Lawful(ty)) =>
        \E inner \in {collect(exemplars(Tail(ty)))} :
            \A i \in 1..Len(out) :
                \E j \in 1..Len(inner) :
                    out[i] = <<(IF ty[1] = "Option" THEN "Some" ELSE "Vec"),
                               (IF ty[1] = "Option" THEN inner[j] ELSE <<inner[j]>>)>>

\* C9 amended: the i-th exemplar of Vec<T> is the Vec holding the i-th
\* exemplar of T alone and there are no others; the i-th exemplar of
\* Option<T> is Some of the i-th exemplar of T, and Option<T> adds to these
\* exactly one value that wraps no exemplar of T, the None at the end.
C9_Derivational ==
    (pc = "done" /\ Len(ty) > 1) =>
        \E inner \in {collect(exemplars(Tail(ty)))} :
            /\ \A i \in 1..Len(out) :
                   \/ /\ i <= Len(inner)
                      /\ ty[1] = "Option"
                      /\ out[i] = <<"Some", inner[i]>>
                   \/ /\ i <= Len(inner)
                      /\ ty[1] = "Vec"
                      /\ out[i] = <<"Vec", <<inner[i]>>>>
                   \/ /\ i = Len(inner) + 1
                      /\ ty[1] = "Option"
                      /\ out[i] = <<"None">>
            /\ Len(out) = Len(inner) + (IF ty[1] = "Option" THEN 1 ELSE 0)

C9_Witness ==
    /\ pc = "done"
    /\ ty = <<"Option", "Vec", "u8">>
    /\ Len(out) = 256
    /\ out[255] = <<"Some", <<"Vec", <<<<"Int", 255>>>>>>>>
    /\ out[256] = <<"None">>

\* C10: exemplar() answers after one next() on the iterator, and for a
\* type that has exemplars that next() takes one value from the innermost
\* array or range, however many values remain; the first next() of a
\* caller's loop does the same; and a caller's loop over exemplars()
\* reaches the None that ends it.
C10_LazyAndTerminating ==
    /\ [](Answered => (pulls = 1 /\ (Lawful(ty) => work = 1)))
    /\ []((pc = "iterating" /\ pulls = 1 /\ Lawful(ty)) => (work = 1 /\ Len(out) = 1))
    /\ ((pc = "iterating") ~> (pc = "done"))

C10_Witness ==
    /\ pc = "returned"
    /\ ty = <<"Vec", "Option", "u8">>
    /\ pulls = 1
    /\ work = 1
    /\ ret = <<<<"Vec", <<<<"Some", <<"Int", 1>>>>>>>>>>

====
